---- MODULE Spec2Model ----
(***************************************************************************)
(* Model of client_config_manager/config_manager.py: the ClientConfig      *)
(* value object and the ConfigManager registry (load at construction,      *)
(* lookup, registration, save).                                            *)
(*                                                                         *)
(* Python values are represented by strings.  A JSON/Python dict is a      *)
(* sequence of [k, v] pairs with pairwise distinct keys, in insertion      *)
(* order (the order dict.items() and json.dump use).                       *)
(***************************************************************************)
EXTENDS Naturals, Sequences, FiniteSets, TLC

\* ------------------------------------------------------------------ bounds
\* Largest number of (key, record) pairs of a loaded document.
MaxEntries == 2
\* Largest number of operations called on a manager after construction.
MaxOps == 3

\* ------------------------------------------------------------------ values
\* dict key that is not present (data["k"] raises KeyError, data.get("k") is None)
ABSENT == "<absent>"
\* Python None / JSON null
NULL == "<null>"
\* the JSON object {}
EmptyObj == "{}"
\* a non-empty JSON object used as custom_properties
SomeObj == "{k:1}"

\* Python truthiness of a value: `not v` is true for None, "" and {}.
Falsy(v) == v \in {NULL, "", EmptyObj}

\* ------------------------------------------------------------------ dicts
Keys(d) == {d[i].k : i \in 1..Len(d)}

HasKey(d, key) == \E i \in 1..Len(d) : d[i].k = key

\* d[key], for a key of d
DictGet(d, key) == d[CHOOSE i \in 1..Len(d) : d[i].k = key].v

\* d[key] = val: overwrite in place, or insert at the end
DictSet(d, key, val) ==
    IF HasKey(d, key)
    THEN [i \in 1..Len(d) |-> IF d[i].k = key THEN [k |-> key, v |-> val] ELSE d[i]]
    ELSE Append(d, [k |-> key, v |-> val])

UniqueKeys(d) == \A i, j \in 1..Len(d) : d[i].k = d[j].k => i = j

\* ------------------------------------------------------------ ClientConfig
\* ClientConfig.__init__: [err, obj]; obj is meaningful only when err = "none".
NoConfig ==
    [name |-> ABSENT, endpoint_url |-> ABSENT, hostname |-> ABSENT,
     namespace |-> ABSENT, custom_properties |-> ABSENT]

\* mutant: the constructor without the check of hostname
ClientConfigInit_NoHostnameCheck(name, endpoint_url, hostname, namespace, custom_properties) ==
    IF Falsy(name) \/ Falsy(endpoint_url)
    THEN [err |-> "ValueError", obj |-> NoConfig]
    ELSE [err |-> "none",
          obj |-> [name |-> name, endpoint_url |-> endpoint_url,
                   hostname |-> hostname, namespace |-> namespace,
                   custom_properties |->
                       IF custom_properties # NULL THEN custom_properties
                       ELSE EmptyObj]]

ClientConfigInit(name, endpoint_url, hostname, namespace, custom_properties) ==
    IF Falsy(name) \/ Falsy(endpoint_url) \/ Falsy(hostname)
    THEN [err |-> "ValueError", obj |-> NoConfig]
    ELSE [err |-> "none",
          obj |-> [name |-> name, endpoint_url |-> endpoint_url,
                   hostname |-> hostname, namespace |-> namespace,
                   custom_properties |->
                       IF custom_properties # NULL THEN custom_properties
                       ELSE EmptyObj]]

\* mutant: to_dict that writes no namespace
to_dict_NoNamespace(c) ==
    [kind |-> "dict", name |-> c.name, endpoint_url |-> c.endpoint_url,
     hostname |-> c.hostname, namespace |-> NULL,
     custom_properties |-> c.custom_properties]

\* ClientConfig.to_dict: the record written for one client
to_dict(c) ==
    [kind |-> "dict", name |-> c.name, endpoint_url |-> c.endpoint_url,
     hostname |-> c.hostname, namespace |-> c.namespace,
     custom_properties |-> c.custom_properties]

\* data.get(key): None when the key is absent
Get(v) == IF v = ABSENT THEN NULL ELSE v

\* ClientConfig.from_dict on a dict record: data["k"] raises KeyError for an
\* absent required key before the constructor is entered.
from_dict(data) ==
    IF data.name = ABSENT \/ data.endpoint_url = ABSENT \/ data.hostname = ABSENT
    THEN [err |-> "KeyError", obj |-> NoConfig]
    ELSE ClientConfigInit(data.name, data.endpoint_url, data.hostname,
                          Get(data.namespace), Get(data.custom_properties))

\* ------------------------------------------------------------------ errors
\* An error is named by its Python class and, where one class is raised for several
\* reasons, by the raise statement it comes from.
NoErr == "none"
InvalidSource == "ValueError: Invalid config_source"
ParseError == "ValueError: Failed to parse JSON"
Structural == "ValueError: Configuration data must be a dictionary"
DownloadError == "IOError: Failed to download configurations"
FileNotFound == "FileNotFoundError"
IsADirectory == "IsADirectoryError"
RecordTypeError == "TypeError"
SaveError == "IOError: Failed to save configurations"
NotFound == "KeyError: not found"

\* --------------------------------------------------------------- documents
\* The text of a file or of a response body: `valid` says whether it is JSON,
\* `top` the type of the top-level JSON value, `entries` the pairs of a top-level
\* object.
GarbageText == [valid |-> FALSE, top |-> "none", entries |-> <<>>]
ListText == [valid |-> TRUE, top |-> "list", entries |-> <<>>]
DictText(entries) == [valid |-> TRUE, top |-> "dict", entries |-> entries]

\* json.dump(output_data, f): the text holding the object output_data
json_dump(output_data) == DictText(output_data)

\* ------------------------------------------------------ _parse_config_data
\* The except clause of the per-client try: the exception classes it catches.
ParseCaught == {"KeyError", "ValueError"}

\* mutant: the try body without the correction of the name field
ParseEntry_NoCorrection(client_name, client_data) ==
    IF client_data.kind # "dict"
    THEN [err |-> "TypeError", obj |-> NoConfig]
    ELSE from_dict(client_data)

\* The body of the try for one (client_name, client_data) pair: the exception it
\* raises ("none" when it stores a config) and the config it stores.  `"name" not in
\* client_data` raises TypeError for None and for a number; for a string or a list
\* either client_data["name"] = ... or client_data["name"] raises TypeError.
ParseEntry(client_name, client_data) ==
    IF client_data.kind # "dict"
    THEN [err |-> "TypeError", obj |-> NoConfig]
    ELSE LET corrected ==
                 IF client_data.name = ABSENT \/ client_data.name # client_name
                 THEN [client_data EXCEPT !.name = client_name]
                 ELSE client_data
         IN  from_dict(corrected)

\* The for loop from pair i on: [err, cfgs] with cfgs the mapping when the loop
\* ends or when an exception leaves it.
RECURSIVE ParseLoop(_, _, _)
ParseLoop(entries, i, cfgs) ==
    IF i > Len(entries) THEN [err |-> NoErr, cfgs |-> cfgs]
    ELSE LET r == ParseEntry(entries[i].k, entries[i].v)
         IN  IF r.err = "none"
             THEN ParseLoop(entries, i + 1, DictSet(cfgs, entries[i].k, r.obj))
             ELSE IF r.err \in ParseCaught
             THEN ParseLoop(entries, i + 1, cfgs)
             ELSE [err |-> RecordTypeError, cfgs |-> cfgs]

\* mutant: no isinstance check of the top-level value
_parse_config_data_NoTopCheck(config_data, cfgs) ==
    ParseLoop(config_data.entries, 1, cfgs)

_parse_config_data(config_data, cfgs) ==
    IF config_data.top # "dict"
    THEN [err |-> Structural, cfgs |-> cfgs]
    ELSE ParseLoop(config_data.entries, 1, cfgs)

\* --------------------------------------------------- _load_from_local_file
\* files[p]: [exists, dir, text].  `vanish`: the file is removed between the
\* os.path.exists check and open().
NoFile == [exists |-> FALSE, dir |-> FALSE, text |-> GarbageText]
Directory == [exists |-> TRUE, dir |-> TRUE, text |-> GarbageText]
File(text) == [exists |-> TRUE, dir |-> FALSE, text |-> text]

_load_from_local_file(file_path, fs, vanish, cfgs) ==
    IF vanish \/ ~fs[file_path].exists THEN [err |-> FileNotFound, cfgs |-> cfgs]
    ELSE IF fs[file_path].dir THEN [err |-> IsADirectory, cfgs |-> cfgs]
    ELSE IF ~fs[file_path].text.valid THEN [err |-> ParseError, cfgs |-> cfgs]
    ELSE _parse_config_data(fs[file_path].text, cfgs)

\* ------------------------------------------------------ _download_and_load
\* The classes of the exceptions raised inside the try (the class itself and its
\* bases), as the except clauses test them with isinstance.
ConnectionErrorClasses == {"ConnectionError", "RequestException", "IOError"}
HTTPErrorClasses == {"HTTPError", "RequestException", "IOError"}
InvalidURLClasses == {"InvalidURL", "RequestException", "IOError", "ValueError"}

\* response.json() on a body that is not JSON: requests >= 2.27 raises
\* requests.exceptions.JSONDecodeError, a subclass of RequestException and of
\* json.JSONDecodeError; older releases raise json.JSONDecodeError itself.
RequestsVersions == {"<2.27", ">=2.27"}

JsonErrorClasses(ver) ==
    IF ver = ">=2.27"
    THEN {"requests.JSONDecodeError", "InvalidJSONError", "RequestException",
          "IOError", "json.JSONDecodeError", "ValueError"}
    ELSE {"json.JSONDecodeError", "ValueError"}

\* The except clauses, in order: RequestException, then json.JSONDecodeError;
\* anything else propagates as raised.
DownloadExcept(classes, raised) ==
    IF "RequestException" \in classes THEN DownloadError
    ELSE IF "json.JSONDecodeError" \in classes THEN ParseError
    ELSE raised

\* urlparse(source).scheme
Scheme(source) ==
    IF source \in {"http://host/cfg", "http:cfg"} THEN "http"
    ELSE IF source = "https://host/cfg" THEN "https"
    ELSE ""

\* A URL with no host: requests.get raises InvalidURL without sending anything.
NoHost(url) == url = "http:cfg"

\* net: [status, text], what the server answers to a GET of the host's URLs.
_download_and_load(url, net, ver, cfgs) ==
    IF NoHost(url)
    THEN [err |-> DownloadExcept(InvalidURLClasses, "InvalidURL"), cfgs |-> cfgs]
    ELSE IF net.status = "unreachable"
    THEN [err |-> DownloadExcept(ConnectionErrorClasses, "ConnectionError"),
          cfgs |-> cfgs]
    ELSE IF net.status # "200"
    THEN [err |-> DownloadExcept(HTTPErrorClasses, "HTTPError"), cfgs |-> cfgs]
    ELSE IF ~net.text.valid
    THEN [err |-> DownloadExcept(JsonErrorClasses(ver), "JSONDecodeError"),
          cfgs |-> cfgs]
    ELSE LET r == _parse_config_data(net.text, cfgs)
         IN  IF r.err = NoErr THEN r
             ELSE IF r.err = Structural
             THEN [err |-> DownloadExcept({"ValueError"}, Structural),
                   cfgs |-> r.cfgs]
             ELSE [err |-> DownloadExcept({"TypeError"}, RecordTypeError),
                   cfgs |-> r.cfgs]

\* ---------------------------------------------------- _load_configurations
\* os.path.exists(path)
PathExists(fs, path) == path \in DOMAIN fs /\ fs[path].exists

\* mutant: the loaded flag set before the load instead of after it
_load_configurations_FlagFirst(source, fs, net, ver, vanish, cfgs) ==
    LET r == IF Scheme(source) \in {"http", "https"}
             THEN _download_and_load(source, net, ver, cfgs)
             ELSE IF PathExists(fs, source)
             THEN _load_from_local_file(source, fs, vanish, cfgs)
             ELSE [err |-> InvalidSource, cfgs |-> cfgs]
    IN  [err |-> r.err, cfgs |-> r.cfgs, loaded |-> TRUE]

\* [err, cfgs, loaded]: the error that leaves the method and the object's fields
\* when it returns or raises.
_load_configurations(source, fs, net, ver, vanish, cfgs) ==
    LET r == IF Scheme(source) \in {"http", "https"}
             THEN _download_and_load(source, net, ver, cfgs)
             ELSE IF PathExists(fs, source)
             THEN _load_from_local_file(source, fs, vanish, cfgs)
             ELSE [err |-> InvalidSource, cfgs |-> cfgs]
    IN  [err |-> r.err, cfgs |-> r.cfgs, loaded |-> r.err = NoErr]

\* ---------------------------------------------------- ConfigManager.__init__
\* `if self.config_source:` is false for None and for the empty string.
SourceGiven(source) == ~Falsy(source)

ConfigManagerInit(source, fs, net, ver, vanish) ==
    IF SourceGiven(source)
    THEN _load_configurations(source, fs, net, ver, vanish, <<>>)
    ELSE [err |-> NoErr, cfgs |-> <<>>, loaded |-> FALSE]

\* ------------------------------------------------------------- operations
\* mutant: a lookup that returns a default for a missing name
get_client_config_Default(cfgs, client_name) ==
    IF ~HasKey(cfgs, client_name) THEN [err |-> NoErr, ret |-> NoConfig]
    ELSE [err |-> NoErr, ret |-> DictGet(cfgs, client_name)]

\* get_client_config: [err, ret]
get_client_config(cfgs, client_name) ==
    IF ~HasKey(cfgs, client_name) THEN [err |-> NotFound, ret |-> NoConfig]
    ELSE [err |-> NoErr, ret |-> DictGet(cfgs, client_name)]

\* mutant: a registration that replaces the whole mapping
register_client_config_Replaces(cfgs, client_config) ==
    <<[k |-> client_config.name, v |-> client_config]>>

\* register_client_config: the mapping after the call
register_client_config(cfgs, client_config) ==
    DictSet(cfgs, client_config.name, client_config)

\* output_data of save_configurations
RECURSIVE OutputData(_)
OutputData(cfgs) ==
    IF cfgs = <<>> THEN <<>>
    ELSE <<[k |-> Head(cfgs).k, v |-> to_dict(Head(cfgs).v)]>> \o OutputData(Tail(cfgs))

\* open(file_path, 'w') succeeds
Writable(fs, path) == path \in DOMAIN fs /\ ~fs[path].dir

\* save_configurations: [err, fs]
save_configurations(cfgs, default, fs, file_path) ==
    LET path == IF file_path = NULL THEN default ELSE file_path
    IN  IF ~Writable(fs, path) THEN [err |-> SaveError, fs |-> fs]
        ELSE [err |-> NoErr,
              fs |-> [fs EXCEPT ![path] = File(json_dump(OutputData(cfgs)))]]

RECURSIVE list_client_names(_)
list_client_names(cfgs) ==
    IF cfgs = <<>> THEN <<>> ELSE <<Head(cfgs).k>> \o list_client_names(Tail(cfgs))

\* __len__
len(cfgs) == Len(cfgs)

\* __iter__: the values, in order
RECURSIVE iter(_)
iter(cfgs) == IF cfgs = <<>> THEN <<>> ELSE <<Head(cfgs).v>> \o iter(Tail(cfgs))

\* __contains__
contains(cfgs, client_name) == HasKey(cfgs, client_name)

\* ------------------------------------------------------------------ inputs
DictRecord(name, endpoint_url, hostname, namespace, custom_properties) ==
    [kind |-> "dict", name |-> name, endpoint_url |-> endpoint_url,
     hostname |-> hostname, namespace |-> namespace,
     custom_properties |-> custom_properties]

\* client records that are not objects: null, a string, a number, a list
NonDictRecords ==
    {[kind |-> kd, name |-> ABSENT, endpoint_url |-> ABSENT, hostname |-> ABSENT,
      namespace |-> ABSENT, custom_properties |-> ABSENT] :
        kd \in {"null", "str", "int", "list"}}

RequiredVariants ==
    {DictRecord(ABSENT, e, h, ABSENT, ABSENT) :
        e \in {ABSENT, NULL, "", "u"}, h \in {ABSENT, "", "h"}}

NameVariants == {DictRecord(n, "u", "h", ABSENT, ABSENT) : n \in {"", "a", "b"}}

OptionalVariants ==
    {DictRecord(ABSENT, "u", "h", ns, cp) :
        ns \in {ABSENT, NULL, "ns"}, cp \in {ABSENT, NULL, EmptyObj, SomeObj}}

\* the records of the documents of SpecLoad
RichRecords == RequiredVariants \cup NameVariants \cup OptionalVariants \cup NonDictRecords

\* the records of the documents of Spec
LifeRecords ==
    {DictRecord(ABSENT, "u", "h", ABSENT, ABSENT),
     DictRecord("b", "u", "h", "ns", SomeObj),
     DictRecord(ABSENT, "u", ABSENT, ABSENT, ABSENT),
     DictRecord(ABSENT, "u", "h", NULL, NULL)} \cup
    {r \in NonDictRecords : r.kind = "null"}

\* JSON objects of at most MaxEntries pairs (a JSON parser keeps one pair per key)
Objects(keys, recs) ==
    UNION {{d \in [1..n -> [k : keys, v : recs]] : UniqueKeys(d)} : n \in 0..MaxEntries}

Texts(keys, recs) ==
    {GarbageText, ListText} \cup {DictText(d) : d \in Objects(keys, recs)}

\* the names of files that can be written
Paths == {"cfg.json", "out.json", "client_configs.json", "http:cfg"}

\* config_source arguments: None, "", an existing or missing file, URLs, and a
\* file name that parses as a URL
Sources ==
    {NULL, "", "cfg.json", "missing.json", "http://host/cfg", "https://host/cfg",
     "http:cfg"}

\* file_path arguments of save_configurations (None: the default file)
SavePaths == {NULL, "out.json", "http:cfg", "nodir/out.json"}

LookupNames == {"a", "b", "zz"}

\* ClientConfig objects a caller can construct and register
RegConfigs ==
    {r.obj : r \in {x \in {ClientConfigInit(n, e, "h2", ns, cp) :
                               n \in {"", "a", "b"}, e \in {"u2"},
                               ns \in {NULL}, cp \in {NULL, SomeObj}} :
                     x.err = "none"}}

NoFiles == [p \in Paths |-> NoFile]
Unreachable == [status |-> "unreachable", text |-> GarbageText]

\* ------------------------------------------------------------------- state
VARIABLES
    files,                \* the file system: path -> [exists, dir, text]
    remote,               \* the server: [status, text]
    pc,                   \* "new", "ready" (constructed) or "failed" (__init__ raised)
    config_source,        \* self.config_source
    default_filename,     \* self.default_filename
    client_configs,       \* self._client_configs
    loaded_from_source,   \* self._loaded_from_source
    last,                 \* the last call: operation, arguments, error, result
    other,                \* a second manager constructed from a saved file
    stored,               \* name -> the config most recently stored under it
    nops                  \* operations called since construction

vars == <<files, remote, pc, config_source, default_filename, client_configs,
          loaded_from_source, last, other, stored, nops>>

NoRet == [cfg |-> NoConfig, names |-> <<>>, vals |-> <<>>, n |-> 0, b |-> FALSE]

Call(op, arg, cfg, err, ret) ==
    [op |-> op, arg |-> arg, cfg |-> cfg, err |-> err, ret |-> ret]

NoOther == [built |-> FALSE, source |-> NULL, err |-> NoErr, cfgs |-> <<>>,
            loaded |-> FALSE]

\* The state before ConfigManager(config_source, default_filename) is called, with
\* the documents drawn from the given keys and records.
InitWith(keys, recs, remoteRecs) ==
    /\ config_source \in Sources
    /\ default_filename \in {"client_configs.json", "out.json"}
    /\ \/ /\ config_source = "cfg.json"
          /\ \E f \in {Directory} \cup {File(t) : t \in Texts(keys, recs)} :
                 files = [NoFiles EXCEPT !["cfg.json"] = f]
          /\ remote = Unreachable
       \/ /\ Scheme(config_source) \in {"http", "https"}
          /\ files = NoFiles
          /\ remote \in {Unreachable, [status |-> "404", text |-> GarbageText]} \cup
                        {[status |-> "200", text |-> t] :
                             t \in Texts({"a", "b"}, remoteRecs)}
       \/ /\ config_source \in {NULL, "", "missing.json"}
          /\ files = NoFiles
          /\ remote = Unreachable
    /\ pc = "new"
    /\ client_configs = <<>>
    /\ loaded_from_source = FALSE
    /\ last = Call("none", NULL, NoConfig, NoErr, NoRet)
    /\ other = NoOther
    /\ stored = [n \in LookupNames |-> NoConfig]
    /\ nops = 0

Init == InitWith({"a", "b"}, LifeRecords, LifeRecords)

InitLoad == InitWith({"", "a", "b"}, RichRecords, LifeRecords)

\* ConfigManager(config_source, default_filename)
Construct ==
    /\ pc = "new"
    /\ \E ver \in RequestsVersions, vanish \in BOOLEAN :
        /\ vanish => /\ SourceGiven(config_source)
                     /\ Scheme(config_source) = ""
                     /\ PathExists(files, config_source)
        /\ LET r == ConfigManagerInit(config_source, files, remote, ver, vanish)
           IN  /\ client_configs' = r.cfgs
               /\ loaded_from_source' = r.loaded
               /\ pc' = IF r.err = NoErr THEN "ready" ELSE "failed"
               /\ last' = Call("construct", config_source, NoConfig, r.err, NoRet)
               /\ stored' = [n \in LookupNames |->
                                IF r.err = NoErr /\ HasKey(r.cfgs, n)
                                THEN DictGet(r.cfgs, n) ELSE NoConfig]
        /\ files' = IF vanish THEN [files EXCEPT ![config_source] = NoFile] ELSE files
    /\ UNCHANGED <<remote, config_source, default_filename, other, nops>>

CanCall == pc = "ready" /\ nops < MaxOps

GetClientConfig ==
    /\ CanCall
    /\ \E name \in LookupNames :
        LET r == get_client_config(client_configs, name)
        IN  last' = Call("get", name, NoConfig, r.err, [NoRet EXCEPT !.cfg = r.ret])
    /\ nops' = nops + 1
    /\ UNCHANGED <<files, remote, pc, config_source, default_filename,
                   client_configs, loaded_from_source, other, stored>>

RegisterClientConfig ==
    /\ CanCall
    /\ \E c \in RegConfigs :
        /\ client_configs' = register_client_config(client_configs, c)
        /\ stored' = [stored EXCEPT ![c.name] = c]
        /\ last' = Call("register", c.name, c, NoErr, NoRet)
    /\ nops' = nops + 1
    /\ UNCHANGED <<files, remote, pc, config_source, default_filename,
                   loaded_from_source, other>>

SaveConfigurations ==
    /\ CanCall
    /\ \E path \in SavePaths :
        LET r == save_configurations(client_configs, default_filename, files, path)
        IN  /\ files' = r.fs
            /\ last' = Call("save", path, NoConfig, r.err, NoRet)
    /\ nops' = nops + 1
    /\ UNCHANGED <<remote, pc, config_source, default_filename, client_configs,
                   loaded_from_source, other, stored>>

ListClientNames ==
    /\ CanCall
    /\ last' = Call("list", NULL, NoConfig, NoErr,
                    [NoRet EXCEPT !.names = list_client_names(client_configs)])
    /\ nops' = nops + 1
    /\ UNCHANGED <<files, remote, pc, config_source, default_filename,
                   client_configs, loaded_from_source, other, stored>>

LenCall ==
    /\ CanCall
    /\ last' = Call("len", NULL, NoConfig, NoErr,
                    [NoRet EXCEPT !.n = len(client_configs)])
    /\ nops' = nops + 1
    /\ UNCHANGED <<files, remote, pc, config_source, default_filename,
                   client_configs, loaded_from_source, other, stored>>

IterCall ==
    /\ CanCall
    /\ last' = Call("iter", NULL, NoConfig, NoErr,
                    [NoRet EXCEPT !.vals = iter(client_configs)])
    /\ nops' = nops + 1
    /\ UNCHANGED <<files, remote, pc, config_source, default_filename,
                   client_configs, loaded_from_source, other, stored>>

ContainsCall ==
    /\ CanCall
    /\ \E name \in LookupNames :
        last' = Call("contains", name, NoConfig, NoErr,
                     [NoRet EXCEPT !.b = contains(client_configs, name)])
    /\ nops' = nops + 1
    /\ UNCHANGED <<files, remote, pc, config_source, default_filename,
                   client_configs, loaded_from_source, other, stored>>

\* After a successful save_configurations(path): ConfigManager(path), a second
\* manager, while the first stays as it is.
Reload ==
    /\ pc = "ready"
    /\ last.op = "save" /\ last.err = NoErr /\ last.arg # NULL
    /\ \E ver \in RequestsVersions :
        LET r == ConfigManagerInit(last.arg, files, remote, ver, FALSE)
        IN  other' = [built |-> r.err = NoErr, source |-> last.arg, err |-> r.err,
                      cfgs |-> r.cfgs, loaded |-> r.loaded]
    /\ last' = Call("reload", last.arg, NoConfig, NoErr, NoRet)
    /\ UNCHANGED <<files, remote, pc, config_source, default_filename,
                   client_configs, loaded_from_source, stored, nops>>

Next ==
    \/ Construct
    \/ GetClientConfig
    \/ RegisterClientConfig
    \/ SaveConfigurations
    \/ ListClientNames
    \/ LenCall
    \/ IterCall
    \/ ContainsCall
    \/ Reload

Spec == Init /\ [][Next]_vars

NextLoad == Construct

SpecLoad == InitLoad /\ [][NextLoad]_vars

\* ------------------------------------------------------------------ claims
IsUrl(source) == Scheme(source) \in {"http", "https"}

\* construction read a document from its source, and the text it read
SourceReadable ==
    /\ config_source \notin {NULL, ""}
    /\ IF IsUrl(config_source)
       THEN ~NoHost(config_source) /\ remote.status = "200"
       ELSE PathExists(files, config_source) /\ ~files[config_source].dir

ReadText == last.op = "construct" /\ SourceReadable

SourceText == IF IsUrl(config_source) THEN remote.text ELSE files[config_source].text

ReadObject == ReadText /\ SourceText.valid /\ SourceText.top = "dict"

\* the manager was constructed from a top-level object (no operation writes the
\* source: it is neither a default file nor a path saved to)
LoadedObject ==
    pc = "ready" /\ SourceReadable /\ SourceText.valid /\ SourceText.top = "dict"

AllDictRecords(entries) == \A i \in 1..Len(entries) : entries[i].v.kind = "dict"

\* two mappings with the same names and, per name, equal configs
SameMapping(d1, d2) ==
    /\ Keys(d1) = Keys(d2)
    /\ \A key \in Keys(d1) : DictGet(d1, key) = DictGet(d2, key)

\* C1: whenever the loaded document is a top-level object, whatever its records
\* are (objects or not), construction succeeds: no error leaves the constructor.
C1_PerEntryIsolation == ReadObject => (pc = "ready" /\ last.err = NoErr)

\* C2 as stated: after a successful save_configurations(path), a new manager
\* constructed from path exists and has the same names with equal configs.
C2_RoundTripAnyPath ==
    last.op = "reload" =>
        (other.built /\ SameMapping(other.cfgs, client_configs))

\* C2 amended: the same, for a path whose URL scheme is neither http nor https.
C2_RoundTrip ==
    (last.op = "reload" /\ ~IsUrl(last.arg)) =>
        (other.built /\ SameMapping(other.cfgs, client_configs))

C2_Witness ==
    /\ last.op = "reload" /\ last.arg = "out.json"
    /\ \E i, j \in 1..Len(client_configs) :
        /\ client_configs[i].v.hostname = "h" /\ client_configs[i].v.namespace = "ns"
        /\ client_configs[j].v.hostname = "h2"
    /\ SameMapping(other.cfgs, client_configs)

\* C3: construction with any config_source other than None loads (so a manager
\* it returns has the loaded flag set), and fails with the invalid-source error
\* when the source is neither an http/https URL nor an existing path; only
\* config_source = None gives an empty manager without a load.
C3_SourceClassification ==
    [][(pc = "new" /\ pc' # "new") =>
        /\ (config_source # NULL /\ ~IsUrl(config_source)
              /\ ~PathExists(files, config_source))
           => (pc' = "failed" /\ last'.err = InvalidSource)
        /\ (config_source # NULL /\ pc' = "ready") => loaded_from_source'
        /\ config_source = NULL
           => (pc' = "ready" /\ client_configs' = <<>> /\ ~loaded_from_source')]_vars

\* the errors of a failed top-level load
TopLevelErrors ==
    {InvalidSource, DownloadError, FileNotFound, IsADirectory, ParseError, Structural}

TopLevelFault ==
    /\ last.op = "construct"
    /\ config_source \notin {NULL, ""}
    /\ ~ReadObject

\* C4: when the source is invalid, cannot be fetched or read, is not JSON or is
\* not a top-level object, construction fails with that top-level error, the
\* loaded flag is false and the mapping is still empty.
C4_NoHalfInitialised ==
    /\ TopLevelFault =>
        /\ pc = "failed"
        /\ last.err \in TopLevelErrors
        /\ ~loaded_from_source
        /\ client_configs = <<>>
    /\ (last.op = "construct" /\ last.err \in TopLevelErrors) =>
        /\ pc = "failed"
        /\ ~loaded_from_source
        /\ client_configs = <<>>

C4_Witness ==
    /\ pc = "failed" /\ last.err = Structural
    /\ ReadText /\ SourceText.top = "list"

\* C5: every entry of the mapping is stored under the name of its config.
C5_KeyIsName ==
    \A i \in 1..Len(client_configs) : client_configs[i].k = client_configs[i].v.name

\* a loaded record named "b" under the key "a", and a registered config
C5_Witness ==
    /\ LoadedObject
    /\ \E i \in 1..Len(SourceText.entries) :
        /\ SourceText.entries[i].k = "a"
        /\ SourceText.entries[i].v.name = "b"
    /\ HasKey(client_configs, "a") /\ DictGet(client_configs, "a").name = "a"
    /\ HasKey(client_configs, "b") /\ DictGet(client_configs, "b").hostname = "h2"

\* C6: get_client_config(name) raises the not-found error exactly when name is no
\* key of the mapping, and otherwise returns the config most recently stored
\* under name.
C6_Lookup ==
    last.op = "get" =>
        /\ last.err \in {NoErr, NotFound}
        /\ last.err = NotFound <=>
               last.arg \notin {client_configs[i].k : i \in 1..Len(client_configs)}
        /\ last.err = NoErr =>
               (last.ret.cfg = stored[last.arg] /\ last.ret.cfg # NoConfig)

\* a lookup of a name that was loaded and then registered again
C6_Witness ==
    /\ last.op = "get" /\ last.err = NoErr
    /\ LoadedObject /\ \E i \in 1..Len(SourceText.entries) :
                         SourceText.entries[i].k = last.arg
    /\ last.ret.cfg.hostname = "h2"

\* C7: register_client_config(config) raises nothing, makes the entry of
\* config.name equal to config, keeps every other entry, and changes no file;
\* for a constructed manager only save_configurations changes a file.
C7_RegisterFrame ==
    [][/\ last'.op = "register" =>
            /\ last'.err = NoErr
            /\ HasKey(client_configs', last'.cfg.name)
            /\ DictGet(client_configs', last'.cfg.name) = last'.cfg
            /\ \A n \in LookupNames \ {last'.cfg.name} :
                /\ HasKey(client_configs', n) <=> HasKey(client_configs, n)
                /\ HasKey(client_configs, n) =>
                       DictGet(client_configs', n) = DictGet(client_configs, n)
            /\ Len(client_configs') = Cardinality(Keys(client_configs'))
            /\ files' = files
       /\ (pc = "ready" /\ files' # files) => last'.op = "save"]_vars

\* a registration that overwrote one loaded entry and kept another
C7_Witness ==
    /\ last.op = "register" /\ LoadedObject
    /\ Len(client_configs) = 2
    /\ \E i, j \in 1..2 :
        /\ client_configs[i].v = last.cfg
        /\ client_configs[j].v.hostname = "h"

\* a field that is present and non-empty: neither missing, null nor ""
HasValue(v) == v \notin {ABSENT, NULL, ""}

\* C8: for a top-level object whose records are all objects, the loaded names are
\* exactly the non-empty keys whose record has endpoint_url and hostname present
\* and non-empty, and each config takes its fields from its record, namespace
\* being None when absent and custom_properties {} when absent or null.
C8_ExactLoad ==
    (ReadObject /\ AllDictRecords(SourceText.entries)) =>
        LET es == SourceText.entries
        IN  /\ pc = "ready"
            /\ Keys(client_configs) =
                   {es[i].k : i \in {j \in 1..Len(es) :
                        /\ es[j].k # ""
                        /\ HasValue(es[j].v.endpoint_url)
                        /\ HasValue(es[j].v.hostname)}}
            /\ \A i \in 1..Len(es) :
                   HasKey(client_configs, es[i].k) =>
                       LET c == DictGet(client_configs, es[i].k)
                           r == es[i].v
                       IN  /\ c.endpoint_url = r.endpoint_url
                           /\ c.hostname = r.hostname
                           /\ c.namespace =
                                  IF r.namespace = ABSENT THEN NULL ELSE r.namespace
                           /\ c.custom_properties =
                                  IF r.custom_properties \in {ABSENT, NULL}
                                  THEN EmptyObj ELSE r.custom_properties

\* a load that kept one record and skipped another
C8_Witness ==
    /\ ReadObject /\ AllDictRecords(SourceText.entries)
    /\ Len(SourceText.entries) = 2 /\ Len(client_configs) = 1
    /\ client_configs[1].v.namespace = NULL
    /\ client_configs[1].v.custom_properties = EmptyObj

\* C9: for an http/https source, a failed request or a non-success status fails
\* construction with the I/O error, and a successful response whose body is not
\* JSON fails it with the parse error.
C9_RemoteErrorKinds ==
    (last.op = "construct" /\ IsUrl(config_source)) =>
        /\ (NoHost(config_source) \/ remote.status # "200")
           => (pc = "failed" /\ last.err = DownloadError)
        /\ (~NoHost(config_source) /\ remote.status = "200" /\ ~remote.text.valid)
           => (pc = "failed" /\ last.err = ParseError)

\* C10: on a constructed manager only register_client_config changes the mapping;
\* config_source, default_filename and the loaded flag never change; the flag is
\* true exactly when a non-empty config_source was given and its load completed.
C10_Frame ==
    /\ [][pc = "ready" =>
            /\ last'.op # "register" => client_configs' = client_configs
            /\ config_source' = config_source
            /\ default_filename' = default_filename
            /\ loaded_from_source' = loaded_from_source]_vars
    /\ [](loaded_from_source <=> (pc = "ready" /\ config_source \notin {NULL, ""}))

\* a failed save after a load
C10_Witness ==
    /\ last.op = "save" /\ last.err = SaveError
    /\ loaded_from_source /\ Len(client_configs) = 2

====
